---- MODULE Spec2Model ----
(***************************************************************************)
(* Model of rijnagent.py: the correlation module (interpolate_series,      *)
(* compute_lag_hours) and the run ordering of main.                        *)
(*                                                                         *)
(* Arithmetic.  Timestamps are whole seconds, all multiples of TICK, with  *)
(* distinct timestamps inside one series.  Sample values are integers.     *)
(* np.interp yields rationals; the model carries every grid value of one   *)
(* series multiplied by one positive integer (Scale), so that it stays in  *)
(* the integers.  The zero-variance test and the Pearson coefficient are   *)
(* invariant under a positive rescaling (and under the affine              *)
(* standardisation of lines 205-206), so both are computed exactly on the  *)
(* scaled values; correlations are compared as exact fractions.  Floating  *)
(* point rounding of numpy is not modelled.                                *)
(***************************************************************************)
EXTENDS Integers, Sequences, FiniteSets, TLC

\* ------------------------------------------------------------------------
\* Program constants
\* ------------------------------------------------------------------------
STEP == 3600
MIN_GRID == 10
MIN_OVERLAP_STEPS == 6
MIN_SLICE == 6
DEFAULT_MAX_LAG == 72

\* Granularity of the timestamps the model draws: half a grid step.
TICK == STEP \div 2

\* ------------------------------------------------------------------------
\* Integer helpers
\* ------------------------------------------------------------------------
Min(a, b) == IF a <= b THEN a ELSE b
Max(a, b) == IF a >= b THEN a ELSE b

RECURSIVE Gcd(_, _)
Gcd(a, b) == IF b = 0 THEN a ELSE Gcd(b, a % b)

Lcm(a, b) == (a \div Gcd(a, b)) * b

RECURSIVE SumSeq(_)
SumSeq(s) == IF s = <<>> THEN 0 ELSE Head(s) + SumSeq(Tail(s))

RECURSIVE DotSeq(_, _)
DotSeq(x, y) == IF x = <<>> THEN 0 ELSE Head(x) * Head(y) + DotSeq(Tail(x), Tail(y))

\* p/q < r/s for p, r >= 0 and q, s > 0, by the Euclidean expansion of the two
\* fractions (no product of numerators and denominators is formed).
RECURSIVE FracLess(_, _, _, _)
FracLess(p, q, r, s) ==
    LET a == p \div q
        b == r \div s
    IN  IF a # b THEN a < b
        ELSE IF r % s = 0 THEN FALSE
        ELSE IF p % q = 0 THEN TRUE
        ELSE FracLess(s, r % s, q, p % q)

\* ------------------------------------------------------------------------
\* interpolate_series
\* ------------------------------------------------------------------------
\* sorted(points, key=lambda x: x[0]): stable insertion by timestamp.
RECURSIVE InsertByT(_, _)
InsertByT(s, p) ==
    IF s = <<>> THEN <<p>>
    ELSE IF s[Len(s)].t <= p.t THEN Append(s, p)
    ELSE Append(InsertByT(SubSeq(s, 1, Len(s) - 1), p), s[Len(s)])

RECURSIVE SortByT(_)
SortByT(points) ==
    IF points = <<>> THEN <<>>
    ELSE InsertByT(SortByT(SubSeq(points, 1, Len(points) - 1)), points[Len(points)])

\* The factor by which the model multiplies the interpolated values of a sorted
\* series: the least common multiple of the gaps between samples, in ticks.
RECURSIVE Scale(_)
Scale(pts) ==
    IF Len(pts) < 2 THEN 1
    ELSE Lcm((pts[2].t - pts[1].t) \div TICK, Scale(Tail(pts)))

\* np.interp(x, t, v) for t[0] <= x <= t[-1], times Scale(pts).
InterpAt(pts, x) ==
    IF Len(pts) = 1 THEN pts[1].v
    ELSE LET j  == CHOOSE j \in 1..(Len(pts) - 1) : pts[j].t <= x /\ x <= pts[j + 1].t
             gt == (pts[j + 1].t - pts[j].t) \div TICK
             m  == (x - pts[j].t) \div TICK
         IN  Scale(pts) * pts[j].v + (pts[j + 1].v - pts[j].v) * m * (Scale(pts) \div gt)

\* np.arange(t_min, t_max + 1, step_seconds)
Arange(t_min, t_max) ==
    [i \in 1..((t_max - t_min) \div STEP + 1) |-> t_min + (i - 1) * STEP]

interpolate_series(points) ==
    IF points = <<>> THEN [t |-> <<>>, v |-> <<>>]
    ELSE LET pts    == SortByT(points)
             t_grid == Arange(pts[1].t, pts[Len(pts)].t)
         IN  [t |-> t_grid,
              v |-> [i \in 1..Len(t_grid) |-> InterpAt(pts, t_grid[i])]]

\* ------------------------------------------------------------------------
\* compute_lag_hours
\* ------------------------------------------------------------------------
\* x[mask] for mask = (t >= t_start) & (t <= t_end)
Masked(t, x, t_start, t_end) ==
    LET F[i \in 0..Len(t)] ==
            IF i = 0 THEN <<>>
            ELSE IF t[i] >= t_start /\ t[i] <= t_end THEN Append(F[i - 1], x[i])
            ELSE F[i - 1]
    IN  F[Len(t)]

\* Mutant: the sparsity test asks for both grids to be short.
TooSparse_Both(vb, vt) == Len(vb) < MIN_GRID /\ Len(vt) < MIN_GRID

\* len(vb)<10 or len(vt)<10
TooSparse(vb, vt) == Len(vb) < MIN_GRID \/ Len(vt) < MIN_GRID

\* Mutant: an overlap of exactly 6 hours is rejected too.
OverlapTooShort_Inclusive(t_start, t_end) ==
    t_end - t_start <= MIN_OVERLAP_STEPS * STEP

\* t_end - t_start < 6*3600
OverlapTooShort(t_start, t_end) == t_end - t_start < MIN_OVERLAP_STEPS * STEP

\* n^2 times the variance of x; np.std(x) == 0 exactly when it is 0.
VarN(x) == Len(x) * DotSeq(x, x) - SumSeq(x) * SumSeq(x)

\* Mutant: only the reference is tested for zero variance.
ConstantSignal_BaselOnly(vb, vt) == VarN(vb) = 0

\* np.std(vb)==0 or np.std(vt)==0
ConstantSignal(vb, vt) == VarN(vb) = 0 \/ VarN(vt) = 0

\* best_corr = -999, as the signed square root of num/den.
InitCorr == [nan |-> FALSE, sgn |-> -1, num |-> 999 * 999, den |-> 1]

\* np.corrcoef(x, y)[0,1] for two arrays of one length: NaN when either has zero
\* variance, otherwise sgn * sqrt(num / den).
corrcoef(x, y) ==
    LET n   == Len(x)
        sxy == n * DotSeq(x, y) - SumSeq(x) * SumSeq(y)
    IN  IF VarN(x) = 0 \/ VarN(y) = 0
        THEN [nan |-> TRUE, sgn |-> 0, num |-> 0, den |-> 1]
        ELSE [nan |-> FALSE,
              sgn |-> IF sxy > 0 THEN 1 ELSE IF sxy < 0 THEN -1 ELSE 0,
              num |-> sxy * sxy,
              den |-> VarN(x) * VarN(y)]

\* Mutant: corr >= best_corr, a later lag with an equal correlation wins.
CorrGreater_TiesReplace(corr, best_corr) ==
    IF corr.nan \/ best_corr.nan THEN FALSE
    ELSE IF corr.sgn # best_corr.sgn THEN corr.sgn > best_corr.sgn
    ELSE IF corr.sgn = 0 THEN TRUE
    ELSE IF corr.sgn = 1
         THEN ~FracLess(corr.num, corr.den, best_corr.num, best_corr.den)
         ELSE ~FracLess(best_corr.num, best_corr.den, corr.num, corr.den)

\* corr > best_corr on floats: False whenever corr is NaN.
CorrGreater(corr, best_corr) ==
    IF corr.nan \/ best_corr.nan THEN FALSE
    ELSE IF corr.sgn # best_corr.sgn THEN corr.sgn > best_corr.sgn
    ELSE IF corr.sgn = 0 THEN FALSE
    ELSE IF corr.sgn = 1
         THEN FracLess(best_corr.num, best_corr.den, corr.num, corr.den)
         ELSE FracLess(corr.num, corr.den, best_corr.num, best_corr.den)

\* vt[lag:]
ShiftSlice(vt, lag) == SubSeq(vt, lag + 1, Len(vt))

\* vb[:len(v_shift)]
BaseSlice(vb, v_shift) == SubSeq(vb, 1, Min(Len(vb), Len(v_shift)))

\* What a call ends with: kind "none" (return None), "lag" (return best_lag) or
\* "raised" (np.corrcoef raises ValueError on arrays of different lengths); exit
\* names the statement that ended it; evaluated lists the lags whose correlation
\* was computed, in order; best_corr is the value of best_corr at the end.
Outcome(kind, lag, exit, evaluated, best_corr) ==
    [kind |-> kind, lag |-> lag, exit |-> exit, evaluated |-> evaluated,
     best_corr |-> best_corr]

\* The for loop of lines 211-219 from iteration lag on, and the return of 221.
RECURSIVE LagLoop(_, _, _, _, _, _, _)
LagLoop(vb, vt, max_lag, lag, best_lag, best_corr, evaluated) ==
    IF lag > max_lag \/ lag >= Len(vt)
    THEN Outcome("lag", best_lag, "return", evaluated, best_corr)
    ELSE LET v_shift == ShiftSlice(vt, lag)
             v_base  == BaseSlice(vb, v_shift)
         IN  IF Len(v_shift) < MIN_SLICE
             THEN Outcome("lag", best_lag, "return", evaluated, best_corr)
             ELSE IF Len(v_base) # Len(v_shift)
             THEN Outcome("raised", 0, "corrcoef", evaluated, best_corr)
             ELSE LET corr == corrcoef(v_base, v_shift)
                  IN  IF CorrGreater(corr, best_corr)
                      THEN LagLoop(vb, vt, max_lag, lag + 1, lag, corr,
                                   Append(evaluated, lag))
                      ELSE LagLoop(vb, vt, max_lag, lag + 1, best_lag, best_corr,
                                   Append(evaluated, lag))

\* The overlap window of two resampled series: t_start, t_end and the two
\* series restricted to it (times kept beside the values).
Window(b, t) ==
    LET t_start == Max(b.t[1], t.t[1])
        t_end   == Min(b.t[Len(b.t)], t.t[Len(t.t)])
    IN  [t_start |-> t_start, t_end |-> t_end,
         tb |-> Masked(b.t, b.t, t_start, t_end),
         vb |-> Masked(b.t, b.v, t_start, t_end),
         tt |-> Masked(t.t, t.t, t_start, t_end),
         vt |-> Masked(t.t, t.v, t_start, t_end)]

compute_lag_hours(basel_points, target_points, max_lag) ==
    IF basel_points = <<>> \/ target_points = <<>>
    THEN Outcome("none", 0, "empty", <<>>, InitCorr)
    ELSE LET b == interpolate_series(basel_points)
             t == interpolate_series(target_points)
         IN  IF TooSparse(b.v, t.v)
             THEN Outcome("none", 0, "sparse", <<>>, InitCorr)
             ELSE LET w == Window(b, t)
                  IN  IF OverlapTooShort(w.t_start, w.t_end)
                      THEN Outcome("none", 0, "overlap", <<>>, InitCorr)
                      ELSE IF ConstantSignal(w.vb, w.vt)
                      THEN Outcome("none", 0, "constant", <<>>, InitCorr)
                      ELSE LagLoop(w.vb, w.vt, max_lag, 0, 0, InitCorr, <<>>)

\* ------------------------------------------------------------------------
\* The inputs the model draws
\* ------------------------------------------------------------------------
\* Bounds of the input families.
MaxLen == 11
MaxShift == 3
PulseWidth == 2

\* A series sampled once per grid step from tick s on.
Hourly(s, vals) ==
    [i \in 1..Len(vals) |-> [t |-> s * TICK + (i - 1) * STEP, v |-> vals[i]]]

\* A series sampled once per tick from tick s on.
HalfHourly(s, vals) ==
    [i \in 1..Len(vals) |-> [t |-> (s + i - 1) * TICK, v |-> vals[i]]]

Pulse(n, i)    == [k \in 1..n |-> IF i <= k /\ k < i + PulseWidth THEN 1 ELSE 0]
Ramp(n)        == [k \in 1..n |-> k - 1]
Flat(n)        == [k \in 1..n |-> 1]
Reversed(s)    == [i \in 1..Len(s) |-> s[Len(s) + 1 - i]]

Shapes(n) == {Pulse(n, i) : i \in 1..n} \cup {Ramp(n), Flat(n)}

Lens == {MIN_GRID - 1, MIN_GRID, MaxLen, MaxLen + 1}

\* Start of a target after the start of the reference, in ticks: whole grid
\* steps 0..MaxShift, and half a step either side of the reference grid.
Offsets == {-1, 1} \cup {k * (STEP \div TICK) : k \in 0..MaxShift}

BaselStart == 4 * (STEP \div TICK)

\* Irregular series: two samples only; nine samples over ten hours; one sample
\* per tick, the last one off the grid; an unsorted list; a far later window.
Specials(s) ==
    { <<>>,
      << [t |-> s * TICK, v |-> 0], [t |-> (s + 20) * TICK, v |-> 1] >>,
      Hourly(s, Pulse(8, 3)) \o << [t |-> s * TICK + 10 * STEP, v |-> 1] >>,
      HalfHourly(s + 1, Pulse(20, 9)),
      Reversed(Hourly(s, Pulse(MaxLen, 4))),
      Hourly(s + 50, Pulse(MaxLen, 4)) }

BaselInputs ==
    {Hourly(BaselStart, sh) : sh \in Shapes(MaxLen)} \cup Specials(BaselStart)

TargetInputs ==
    UNION {{Hourly(BaselStart + d, sh) : sh \in Shapes(n)} :
              n \in Lens, d \in Offsets}
    \cup Specials(BaselStart - 4 * (STEP \div TICK))

MaxLags == {-1, 2, DEFAULT_MAX_LAG}

\* ------------------------------------------------------------------------
\* State
\* ------------------------------------------------------------------------
\* A call of compute_lag_hours: its arguments, its position and its outcome.
VARIABLES basel_points, target_points, max_lag, pc, out

\* A run of main: the configuration flag SEND_PHOTOS, the position, the index of
\* the station of the loop, the locals basel_hist, current, history, forecast,
\* msg and corr_text, the graph files written, the outcome of compute_lag_hours
\* per station, what Telegram received, the call that raised, and the log of
\* the calls that returned, in order.
VARIABLES send_photos, m_pc, station_i, basel_hist, current, history, forecast,
          msg, corr_text, graphs, lag_of, sent_text, sent_photos, error, log

call_vars == <<basel_points, target_points, max_lag, pc, out>>

main_vars == <<send_photos, m_pc, station_i, basel_hist, current, history, forecast,
               msg, corr_text, graphs, lag_of, sent_text, sent_photos, error, log>>

vars == <<call_vars, main_vars>>

NoOutcome == Outcome("pending", 0, "", <<>>, InitCorr)

\* The stations in the order of the STATIONS dict (KÖLN and DÜSSELDORF spelt as
\* safe_station_filename spells them).
STATIONS == <<"BASEL-RHEINHALLE", "KOBLENZ", "BONN", "KOELN", "DUESSELDORF">>

\* The stations main correlates with Basel.
CorrStations == {"BONN", "KOELN", "DUESSELDORF"}

\* fetch_current's None, and a level in cm.
NoCurrent == [some |-> FALSE, value |-> 0]
Level(cm) == [some |-> TRUE, value |-> cm]

\* What main sees of a call of compute_lag_hours: how it ended and the lag.
Seen(outcome) == [kind |-> outcome.kind, lag |-> outcome.lag]
NotCalled == Seen(NoOutcome)

\* main not running.
MainIdle ==
    /\ send_photos = FALSE
    /\ m_pc = "idle"
    /\ station_i = 1
    /\ basel_hist = <<>>
    /\ current = NoCurrent
    /\ history = <<>>
    /\ forecast = FALSE
    /\ msg = <<>>
    /\ corr_text = <<>>
    /\ graphs = {}
    /\ lag_of = [st \in CorrStations |-> NotCalled]
    /\ sent_text = <<>>
    /\ sent_photos = <<>>
    /\ error = ""
    /\ log = <<>>

Init ==
    /\ basel_points \in BaselInputs
    /\ target_points \in TargetInputs
    /\ max_lag \in MaxLags
    /\ pc = "call"
    /\ out = NoOutcome
    /\ MainIdle

\* One call of compute_lag_hours(basel_points, target_points, max_lag).
Call ==
    /\ pc = "call"
    /\ out' = compute_lag_hours(basel_points, target_points, max_lag)
    /\ pc' = "done"
    /\ UNCHANGED <<basel_points, target_points, max_lag>>
    /\ UNCHANGED main_vars

Next == Call

Spec == Init /\ [][Next]_vars

\* ------------------------------------------------------------------------
\* main
\* ------------------------------------------------------------------------
\* The histories fetch_history returns in the model (sorted, as line 96 leaves
\* them): none, a pulse, the pulse one grid step later, a shorter pulse half a
\* step off the grid.
MainHistories ==
    { <<>>,
      Hourly(BaselStart, Pulse(MaxLen, 4)),
      Hourly(BaselStart + STEP \div TICK, Pulse(MaxLen, 4)),
      Hourly(BaselStart + 1, Pulse(MIN_GRID, 4)) }

\* The values fetch_current returns in the model.
Currents == {NoCurrent, Level(523)}

\* f"{GRAPH_DIR}/{safe_station_filename(station)}_48u.png"
GraphFile(station) ==
    CASE station = "BASEL-RHEINHALLE" -> "graphs/basel-rheinhalle_48u.png"
      [] station = "KOBLENZ"          -> "graphs/koblenz_48u.png"
      [] station = "BONN"             -> "graphs/bonn_48u.png"
      [] station = "KOELN"            -> "graphs/koeln_48u.png"
      [] station = "DUESSELDORF"      -> "graphs/duesseldorf_48u.png"

\* One line of the message: its type, the station it is about, its number.
Line(type, station, val) == [type |-> type, station |-> station, val |-> val]

\* msg as line 268 builds it.
MsgHead == <<Line("title", "", 0), Line("time", "", 0), Line("blank", "", 0)>>

\* Lines 296-299.
StationLine(station, cur) ==
    IF cur.some THEN Line("level", station, cur.value)
    ELSE Line("no_level", station, 0)

\* Mutant: a line is added whatever the outcome, None shown as its lag field.
AddCorr_Always(text, station, outcome) ==
    Append(text, Line("corr", station, outcome.lag))

\* add_corr, lines 276-279, given the outcome of compute_lag_hours.
AddCorr(text, station, outcome) ==
    IF outcome.kind = "lag" THEN Append(text, Line("corr", station, outcome.lag))
    ELSE text

\* Lines 314-317.
WithCorrBlock(m, text) ==
    IF text # <<>>
    THEN m \o <<Line("blank", "", 0), Line("corr_header", "", 0)>> \o text
    ELSE m

Station == STATIONS[station_i]

Raise(what) ==
    /\ m_pc' = "crashed"
    /\ error' = what
    /\ UNCHANGED log

\* A call that returned: which, and for which station.
Ev(call, station) == [call |-> call, station |-> station]

InitMain ==
    /\ basel_points = <<>>
    /\ target_points = <<>>
    /\ max_lag = DEFAULT_MAX_LAG
    /\ pc = "idle"
    /\ out = NoOutcome
    /\ send_photos \in BOOLEAN
    /\ m_pc = "start"
    /\ station_i = 1
    /\ basel_hist = <<>>
    /\ current = NoCurrent
    /\ history = <<>>
    /\ forecast = FALSE
    /\ msg = <<>>
    /\ corr_text = <<>>
    /\ graphs = {}
    /\ lag_of = [st \in CorrStations |-> NotCalled]
    /\ sent_text = <<>>
    /\ sent_photos = <<>>
    /\ error = ""
    /\ log = <<>>

\* Lines 265-274: the message head and the Basel history.
Start ==
    /\ m_pc = "start"
    /\ msg' = MsgHead
    /\ \/ /\ basel_hist' \in MainHistories
          /\ m_pc' = "current"
          /\ log' = Append(log, Ev("fetch_history", STATIONS[1]))
          /\ UNCHANGED error
       \/ /\ Raise("fetch_history")
          /\ UNCHANGED basel_hist
    /\ UNCHANGED <<send_photos, station_i, current, history, forecast, corr_text,
                   graphs, lag_of, sent_text, sent_photos>>
    /\ UNCHANGED call_vars

\* Line 284.
FetchCurrent ==
    /\ m_pc = "current"
    /\ \/ /\ current' \in Currents
          /\ m_pc' = "history"
          /\ log' = Append(log, Ev("fetch_current", Station))
          /\ UNCHANGED error
       \/ /\ Raise("fetch_current")
          /\ UNCHANGED current
    /\ UNCHANGED <<send_photos, station_i, basel_hist, history, forecast, msg,
                   corr_text, graphs, lag_of, sent_text, sent_photos>>
    /\ UNCHANGED call_vars

\* Line 285.
FetchHistory ==
    /\ m_pc = "history"
    /\ \/ /\ history' \in MainHistories
          /\ m_pc' = "body"
          /\ log' = Append(log, Ev("fetch_history", Station))
          /\ UNCHANGED error
       \/ /\ Raise("fetch_history")
          /\ UNCHANGED history
    /\ UNCHANGED <<send_photos, station_i, basel_hist, current, forecast, msg,
                   corr_text, graphs, lag_of, sent_text, sent_photos>>
    /\ UNCHANGED call_vars

\* Lines 288-307: the forecast (its fetchers catch their errors), the station's
\* line, and for Bonn, Köln and Düsseldorf the correlation with Basel.
StationBody ==
    /\ m_pc = "body"
    /\ forecast' \in (IF Station \in {"BASEL-RHEINHALLE", "KOBLENZ"}
                      THEN BOOLEAN ELSE {FALSE})
    /\ msg' = Append(msg, StationLine(Station, current))
    /\ IF Station \in CorrStations
       THEN LET o == compute_lag_hours(basel_hist, history, DEFAULT_MAX_LAG)
            IN  /\ lag_of' = [lag_of EXCEPT ![Station] = Seen(o)]
                /\ IF o.kind = "raised"
                   THEN /\ Raise("compute_lag_hours")
                        /\ UNCHANGED corr_text
                   ELSE /\ corr_text' = AddCorr(corr_text, Station, o)
                        /\ m_pc' = "graph"
                        /\ UNCHANGED <<error, log>>
       ELSE /\ m_pc' = "graph"
            /\ UNCHANGED <<lag_of, corr_text, error, log>>
    /\ UNCHANGED <<send_photos, station_i, basel_hist, current, history, graphs,
                   sent_text, sent_photos>>
    /\ UNCHANGED call_vars

\* Lines 310-311, and the step of the for loop of line 282.
MakeGraph ==
    /\ m_pc = "graph"
    /\ \/ /\ graphs' = graphs \cup {GraphFile(Station)}
          /\ log' = Append(log, Ev("make_graph", Station))
          /\ IF station_i < Len(STATIONS)
             THEN station_i' = station_i + 1 /\ m_pc' = "current"
             ELSE station_i' = station_i /\ m_pc' = "send"
          /\ UNCHANGED error
       \/ /\ Raise("make_graph")
          /\ UNCHANGED <<graphs, station_i>>
    /\ UNCHANGED <<send_photos, basel_hist, current, history, forecast, msg,
                   corr_text, lag_of, sent_text, sent_photos>>
    /\ UNCHANGED call_vars

\* Lines 314-322: the correlation block, tg_send_text, the test of SEND_PHOTOS.
SendText ==
    /\ m_pc = "send"
    /\ msg' = WithCorrBlock(msg, corr_text)
    /\ \/ /\ sent_text' = Append(sent_text, msg')
          /\ log' = Append(log, Ev("tg_send_text", ""))
          /\ IF send_photos
             THEN station_i' = 1 /\ m_pc' = "photos"
             ELSE station_i' = station_i /\ m_pc' = "finished"
          /\ UNCHANGED error
       \/ /\ Raise("tg_send_text")
          /\ UNCHANGED <<sent_text, station_i>>
    /\ UNCHANGED <<send_photos, basel_hist, current, history, forecast, corr_text,
                   graphs, lag_of, sent_photos>>
    /\ UNCHANGED call_vars

\* Lines 323-325: one tg_send_photo; open() raises when the file is missing.
SendPhoto ==
    /\ m_pc = "photos"
    /\ \/ /\ GraphFile(Station) \in graphs
          /\ sent_photos' = Append(sent_photos, GraphFile(Station))
          /\ log' = Append(log, Ev("tg_send_photo", Station))
          /\ IF station_i < Len(STATIONS)
             THEN station_i' = station_i + 1 /\ m_pc' = "photos"
             ELSE station_i' = station_i /\ m_pc' = "finished"
          /\ UNCHANGED error
       \/ /\ Raise("tg_send_photo")
          /\ UNCHANGED <<sent_photos, station_i>>
    /\ UNCHANGED <<send_photos, basel_hist, current, history, forecast, msg,
                   corr_text, graphs, lag_of, sent_text>>
    /\ UNCHANGED call_vars

NextMain ==
    \/ Start
    \/ FetchCurrent
    \/ FetchHistory
    \/ StationBody
    \/ MakeGraph
    \/ SendText
    \/ SendPhoto

SpecMain == InitMain /\ [][NextMain]_vars

\* ------------------------------------------------------------------------
\* Vocabulary of the properties
\* ------------------------------------------------------------------------
Done == pc = "done"

SetMin(S) == CHOOSE x \in S : \A y \in S : x <= y
SetMax(S) == CHOOSE x \in S : \A y \in S : x >= y

Timestamps(points) == {points[i].t : i \in DOMAIN points}
FirstT(points)     == SetMin(Timestamps(points))
LastT(points)      == SetMax(Timestamps(points))

\* The last point of the hourly grid laid from the first timestamp of a series.
LastGridT(points) ==
    FirstT(points) + STEP * ((LastT(points) - FirstT(points)) \div STEP)

\* The points of that grid between two times.
GridIn(points, lo, hi) ==
    {g \in {FirstT(points) + i * STEP :
                i \in 0..((LastT(points) - FirstT(points)) \div STEP)} :
        lo <= g /\ g <= hi}

BothNonEmpty == basel_points # <<>> /\ target_points # <<>>

\* The call got past the empty, sparsity and overlap checks.
PastOverlap == Done /\ out.exit \notin {"empty", "sparse", "overlap"}

\* The two resampled series restricted to the overlap window.
W == Window(interpolate_series(basel_points), interpolate_series(target_points))

\* The correlation the search computes at lag L in window w: A[0 : len(B)-L]
\* against B[L : len(B)], for A of at least that length.
CorrAt(w, L) ==
    corrcoef(SubSeq(w.vb, 1, Len(w.vt) - L), SubSeq(w.vt, L + 1, Len(w.vt)))

\* The lags of 0..max_lag whose shifted slice has at least 6 samples.
Candidates(w) == {L \in 0..max_lag : Len(w.vt) - L >= MIN_SLICE}

Perfect(c) == ~c.nan /\ c.sgn = 1 /\ c.num = c.den

\* target_points is basel_points with every timestamp moved k grid steps on.
IsShiftedBy(k) ==
    /\ Len(target_points) = Len(basel_points)
    /\ \A i \in DOMAIN basel_points :
          /\ target_points[i].t = basel_points[i].t + k * STEP
          /\ target_points[i].v = basel_points[i].v

\* basel_points has one sample at every point of the hourly grid.
OnHourlyGrid ==
    /\ basel_points # <<>>
    /\ \A i \in 1..(Len(basel_points) - 1) :
          basel_points[i + 1].t = basel_points[i].t + STEP

\* ------------------------------------------------------------------------
\* Properties
\* ------------------------------------------------------------------------

\* C1: compute_lag_hours is total: every call ends by returning a lag or None,
\* never by raising.
C1_NeverRaises == Done => out.kind \in {"lag", "none"}

\* C3: a returned lag L satisfies 0 <= L <= max_lag.
C3_BoundedLag == (Done /\ out.kind = "lag") => (0 <= out.lag /\ out.lag <= max_lag)

\* C7: a numeric lag is returned only when some candidate lag was evaluated and
\* its defined correlation was selected; otherwise the result is None.
C7_LagOnlyWhenSelected ==
    (Done /\ out.kind = "lag") =>
        /\ out.evaluated # <<>>
        /\ out.best_corr # InitCorr
        /\ \E i \in DOMAIN out.evaluated : out.evaluated[i] = out.lag

\* C8: past the sparsity and overlap checks the two restricted arrays have one
\* length and their i-th elements belong to the same grid timestamp.
C8_CommonGrid == PastOverlap => W.tb = W.tt

\* C9: a returned lag is the smallest candidate lag whose correlation equals the
\* maximum over the candidate lags.
C9_SelectionRule ==
    (Done /\ out.kind = "lag") =>
        LET w    == W
            best == CorrAt(w, out.lag)
        IN  /\ out.lag \in Candidates(w)
            /\ ~best.nan
            /\ \A L \in Candidates(w) :
                  LET c == CorrAt(w, L)
                  IN  /\ ~CorrGreater(c, best)
                      /\ L < out.lag => (c.nan \/ CorrGreater(best, c))

\* C2 as stated: a target that is the reference moved k grid steps on, with
\* k <= max_lag, gives exactly k whenever the call passes its checks.
C2_SelfLagExact ==
    \A k \in 0..MaxShift :
        (Done /\ OnHourlyGrid /\ IsShiftedBy(k) /\ k <= max_lag /\ out.kind # "none")
            => (out.kind = "lag" /\ out.lag = k)

\* C2 as amended: when the slice at lag k has at least 6 samples and is not
\* constant, the call returns the smallest lag of 0..k whose correlation is
\* exactly 1; lag k is such a lag.
C2_SelfLagSmallestPerfect ==
    \A k \in 0..MaxShift :
        (Done /\ OnHourlyGrid /\ IsShiftedBy(k) /\ k <= max_lag /\ out.kind # "none")
            => LET w == W
               IN  (k \in Candidates(w) /\ ~CorrAt(w, k).nan)
                      => /\ out.kind = "lag"
                         /\ Perfect(CorrAt(w, k))
                         /\ out.lag <= k
                         /\ Perfect(CorrAt(w, out.lag))
                         /\ \A L \in 0..(out.lag - 1) : ~Perfect(CorrAt(w, L))

\* C2 witness: a shift of at least one step is recovered exactly.
C2_Witness ==
    \E k \in 1..MaxShift :
        Done /\ OnHourlyGrid /\ IsShiftedBy(k) /\ k <= max_lag
             /\ out.kind = "lag" /\ out.lag = k

ShortSpan(points) ==
    points = <<>> \/ LastT(points) - FirstT(points) < (MIN_GRID - 1) * STEP

ConstantOnWindow(points) ==
    LET lo  == Max(FirstT(basel_points), FirstT(target_points))
        hi  == Min(LastGridT(basel_points), LastGridT(target_points))
        pts == SortByT(points)
    IN  Cardinality({InterpAt(pts, g) : g \in GridIn(points, lo, hi)}) <= 1

RECURSIVE StationCalls(_)
StationCalls(i) ==
    IF i = 0 THEN <<Ev("fetch_history", STATIONS[1])>>
    ELSE StationCalls(i - 1) \o <<Ev("fetch_current", STATIONS[i]),
                                  Ev("fetch_history", STATIONS[i]),
                                  Ev("make_graph", STATIONS[i])>>

CorrLines(m) == {i \in DOMAIN m : m[i].type = "corr"}

\* C10: the text is sent at most once and only after all five stations were
\* processed in order; a raising fetch leaves nothing sent; a photo is sent only
\* with SEND_PHOTOS set, after the text, of a graph written in this run; the
\* message has a travel-time line for a station exactly when compute_lag_hours
\* returned a lag for it, and the header exactly when it has such a line.
C10_RunOrdering ==
    /\ Len(sent_text) <= 1
    /\ Cardinality({j \in DOMAIN log : log[j].call = "tg_send_text"}) = Len(sent_text)
    /\ \A j \in DOMAIN log :
          log[j].call = "tg_send_text" =>
              SubSeq(log, 1, j - 1) = StationCalls(Len(STATIONS))
    /\ error \in {"fetch_current", "fetch_history"} =>
          (m_pc = "crashed" /\ sent_text = <<>> /\ sent_photos = <<>>)
    /\ \A j \in DOMAIN log :
          log[j].call = "tg_send_photo" =>
              /\ send_photos
              /\ \E i \in 1..(j - 1) : log[i].call = "tg_send_text"
              /\ \E i \in 1..(j - 1) : log[i] = Ev("make_graph", log[j].station)
              /\ GraphFile(log[j].station) \in graphs
    /\ Len(sent_photos) =
          Cardinality({j \in DOMAIN log : log[j].call = "tg_send_photo"})
    /\ \A n \in DOMAIN sent_text :
          LET m == sent_text[n]
          IN  /\ \A st \in CorrStations :
                    /\ (\E i \in CorrLines(m) : m[i].station = st)
                          <=> lag_of[st].kind = "lag"
                    /\ \A i \in CorrLines(m) :
                          m[i].station = st => m[i].val = lag_of[st].lag
              /\ (\E i \in DOMAIN m : m[i].type = "corr_header")
                    <=> CorrLines(m) # {}
              /\ \A i \in CorrLines(m) : m[i].station \in CorrStations

\* C10 witness: a finished run with the text and all five photos sent, a line
\* for a lag of 0 and no line for a station whose lag was None.
C10_Witness ==
    /\ m_pc = "finished" /\ send_photos
    /\ Len(sent_text) = 1 /\ Len(sent_photos) = Len(STATIONS)
    /\ lag_of["BONN"] = [kind |-> "lag", lag |-> 0]
    /\ lag_of["KOELN"].kind = "none"
    /\ \E i \in CorrLines(sent_text[1]) :
          sent_text[1][i].station = "BONN" /\ sent_text[1][i].val = 0

====
